---- MODULE Spec2Model ----
(***************************************************************************)
(* A model of src/linter.py: the two syntax-tree analyzers                 *)
(* (check_import_order, check_docstrings_and_type_hints) and the driver    *)
(* loop of the __main__ block.                                             *)
(*                                                                         *)
(* A parsed file is an arena of statement nodes in source order; each node *)
(* names its parent (0 is the Module node).  Only the node kinds the two   *)
(* analyzers look at are kept: Import, ImportFrom, FunctionDef,            *)
(* AsyncFunctionDef and ClassDef; any other statement (pass, a docstring   *)
(* expression) fills a body without being a node here.  Text is a sequence *)
(* of code points, so that the comparison of strings is Python's.          *)
(*                                                                         *)
(* Three specifications:                                                   *)
(*   Spec         the driver loop over python_files, both analyzers run on *)
(*                each file, a file that does not parse ending the run;    *)
(*   SpecImports  check_import_order on one file of imports, some of them  *)
(*                nested in functions or sharing a line;                   *)
(*   SpecDecls    check_docstrings_and_type_hints on one file of           *)
(*                functions, methods and classes.                          *)
(***************************************************************************)
EXTENDS Integers, Sequences, FiniteSets, TLC

\* ------------------------------------------------------------------ bounds

\* Files the driver loop iterates over.
MaxFiles == 2
\* Statements of a file that holds imports.
MaxNodes == 3
\* Statements of a file the driver loop reads.
MaxStmts == 2
\* Names a file of declarations declares: its functions, classes and parameters.
MaxNames == 3

\* ------------------------------------------------------------------- text

\* Python's None, where a text may stand: no text has this code point.
None == <<-1>>

\* "import ", "from ", " import x" as code points.
ImportKw == <<105, 109, 112, 111, 114, 116, 32>>
FromKw == <<102, 114, 111, 109, 32>>
ImportTail == <<32, 105, 109, 112, 111, 114, 116, 32, 120>>
Dot == <<46>>

\* Module paths the imports of a file may name: "B", "a", "a.b", "b".
ModuleNames == { <<66>>, <<97>>, <<97, 46, 98>>, <<98>> }

\* Python's str < str: by code point, a proper prefix first.
RECURSIVE StrLess(_, _)
StrLess(s, t) ==
    IF t = <<>> THEN FALSE
    ELSE IF s = <<>> THEN TRUE
    ELSE IF Head(s) # Head(t) THEN Head(s) < Head(t)
    ELSE StrLess(Tail(s), Tail(t))

\* node.module.split('.')[0]
RECURSIVE SplitFirst(_)
SplitFirst(s) ==
    IF s = <<>> \/ <<Head(s)>> = Dot THEN <<>>
    ELSE <<Head(s)>> \o SplitFirst(Tail(s))

\* ------------------------------------------------------------------- tree

FunctionTypes == {"FunctionDef", "AsyncFunctionDef"}
CompoundTypes == FunctionTypes \cup {"ClassDef"}

NoArgs == [posonlyargs |-> <<>>, args |-> <<>>, vararg |-> <<>>,
           kwonlyargs |-> <<>>, kwarg |-> <<>>]

\* The statement nodes of a tree.  module is the dotted path an import names;
\* name is the name a def or class statement binds.
ImportNode(parent, lineno, module) ==
    [type |-> "Import", parent |-> parent, lineno |-> lineno, module |-> module]

ImportFromNode(parent, lineno, module, level) ==
    [type |-> "ImportFrom", parent |-> parent, lineno |-> lineno, module |-> module,
     level |-> level]

DefNode(type, parent, lineno, name, doc, returns, args) ==
    [type |-> type, parent |-> parent, lineno |-> lineno, name |-> name,
     doc |-> doc, returns |-> returns, args |-> args]

ClassNode(parent, lineno, name) ==
    [type |-> "ClassDef", parent |-> parent, lineno |-> lineno, name |-> name]

\* The enclosing compound statements of node i, itself included, and the Module.
RECURSIVE Enclosing(_, _)
Enclosing(t, i) ==
    IF i = 0 THEN {0}
    ELSE (IF t[i].type \in CompoundTypes THEN {i} ELSE {}) \cup Enclosing(t, t[i].parent)

\* Where the statement after the last one of t may be placed.
OpenBodies(t) == IF t = <<>> THEN {0} ELSE Enclosing(t, Len(t))

LastLine(t) == IF t = <<>> THEN 0 ELSE t[Len(t)].lineno

\* "a; b": a simple statement may share the line of the simple statement before
\* it in the same body.
MaySemicolon(t, p) ==
    /\ t # <<>>
    /\ t[Len(t)].type \notin CompoundTypes
    /\ t[Len(t)].parent = p

NextLines(t, p) ==
    {LastLine(t) + 1} \cup (IF MaySemicolon(t, p) THEN {LastLine(t)} ELSE {})

\* ---------------------------------------------------------------- ast.walk

\* The statements directly in the body of node p, in source order.
Body(t, p) == SelectSeq([i \in 1..Len(t) |-> i], LAMBDA i : t[i].parent = p)

\* ast.walk: breadth first, from the Module node.
RECURSIVE WalkFrom(_, _)
WalkFrom(t, todo) ==
    IF todo = <<>> THEN <<>>
    ELSE <<Head(todo)>> \o WalkFrom(t, Tail(todo) \o Body(t, Head(todo)))

walk(t) == WalkFrom(t, <<0>>)

\* ------------------------------------------------------------- ast.unparse

RECURSIVE Dots(_)
Dots(level) == IF level = 0 THEN <<>> ELSE Dot \o Dots(level - 1)

\* ast.unparse of an Import or ImportFrom node: "import a", "from .a import x".
unparse(node) ==
    IF node.type = "Import" THEN ImportKw \o node.module
    ELSE FromKw \o Dots(node.level)
         \o (IF node.module = None THEN <<>> ELSE node.module) \o ImportTail

\* ------------------------------------------------------ check_import_order

LOCAL_PACKAGES == {}

\* The nodes of the tree in the order ast.walk yields them, the Module left out.
WalkNodes(t) == SelectSeq(walk(t), LAMBDA i : i # 0)

Entry(t, i) == <<t[i].lineno, unparse(t[i])>>

Entries(t, idx) == [k \in 1..Len(idx) |-> Entry(t, idx[k])]

IsDirect(node) == node.type = "Import"

HasModule(node) == node.type = "ImportFrom" /\ node.module # None

IsLocalFrom(node) == HasModule(node) /\ SplitFirst(node.module) \in LOCAL_PACKAGES

IsThirdPartyFrom(node) == HasModule(node) /\ SplitFirst(node.module) \notin LOCAL_PACKAGES

direct_imports(t) ==
    Entries(t, SelectSeq(WalkNodes(t), LAMBDA i : IsDirect(t[i])))

third_party_from_imports(t) ==
    Entries(t, SelectSeq(WalkNodes(t), LAMBDA i : IsThirdPartyFrom(t[i])))

local_from_imports(t) ==
    Entries(t, SelectSeq(WalkNodes(t), LAMBDA i : IsLocalFrom(t[i])))

\* sorted(..., key=lambda x: x[1]): stable, so x goes behind the entries whose
\* key is not greater.
RECURSIVE Insert(_, _)
Insert(x, s) ==
    IF s = <<>> THEN <<x>>
    ELSE IF StrLess(x[2], Head(s)[2]) THEN <<x>> \o s
    ELSE <<Head(s)>> \o Insert(x, Tail(s))

RECURSIVE SortedFrom(_, _)
SortedFrom(done, rest) ==
    IF rest = <<>> THEN done ELSE SortedFrom(Insert(Head(rest), done), Tail(rest))

sorted(l) == SortedFrom(<<>>, l)

NotOrdered(l) == l # <<>> /\ sorted(l) # l

RECURSIVE MaxLine(_)
MaxLine(l) ==
    IF Len(l) = 1 THEN l[1][1]
    ELSE LET m == MaxLine(Tail(l)) IN IF l[1][1] > m THEN l[1][1] ELSE m

RECURSIVE MinLine(_)
MinLine(l) ==
    IF Len(l) = 1 THEN l[1][1]
    ELSE LET m == MinLine(Tail(l)) IN IF l[1][1] < m THEN l[1][1] ELSE m

\* The section check without "if direct_imports and third_party_from_imports",
\* the line of an empty section taken as 0.
OutOfSectionUnguarded(earlier, later) ==
    (IF later = <<>> THEN 0 ELSE MinLine(later))
        < (IF earlier = <<>> THEN 0 ELSE MaxLine(earlier))

\* "if first_third_party < last_direct"
OutOfSection(earlier, later) ==
    /\ earlier # <<>>
    /\ later # <<>>
    /\ MinLine(later) < MaxLine(earlier)

Issue(msg) == [line |-> 1, msg |-> msg]

MsgDirectOrder == "Direct imports are not alphabetically ordered"
MsgThirdOrder == "Third-party from-imports are not alphabetically ordered"
MsgLocalOrder == "Local from-imports are not alphabetically ordered"
MsgThirdAfterDirect == "Third-party from-imports must come after direct imports"
MsgLocalAfterThird == "Local from-imports must come after third-party from-imports"

When(cond, issue) == IF cond THEN <<issue>> ELSE <<>>

check_import_order(t) ==
    LET direct == direct_imports(t)
        third == third_party_from_imports(t)
        local == local_from_imports(t)
    IN    When(NotOrdered(direct), Issue(MsgDirectOrder))
       \o When(NotOrdered(third), Issue(MsgThirdOrder))
       \o When(NotOrdered(local), Issue(MsgLocalOrder))
       \o When(OutOfSection(direct, third), Issue(MsgThirdAfterDirect))
       \o When(OutOfSection(third, local), Issue(MsgLocalAfterThird))

\* ------------------------------------------------------------ input files

ContainerDocs == {None, <<100>>}

\* The statements that may follow those of t in a file of imports: an import,
\* a from-import (relative with no module, or of a named module), or a function
\* that may hold further statements.
ImportStmts(t) ==
    UNION { { ImportNode(p, l, m) : l \in NextLines(t, p), m \in ModuleNames }
            \cup { ImportFromNode(p, l, m, 0) : l \in NextLines(t, p), m \in ModuleNames }
            \cup { ImportFromNode(p, l, None, 1) : l \in NextLines(t, p) }
            \cup { DefNode("FunctionDef", p, LastLine(t) + 1, "f", d, r, NoArgs) :
                     d \in ContainerDocs, r \in BOOLEAN }
          : p \in OpenBodies(t) }

\* ----------------------------------------- check_docstrings_and_type_hints

\* inspect.cleandoc of a one-line text: the leading blanks go.
RECURSIVE cleandoc(_)
cleandoc(s) == IF s # <<>> /\ Head(s) = 32 THEN cleandoc(Tail(s)) ELSE s

\* ast.get_docstring(node): None without a leading string literal, else its
\* text, cleaned.
get_docstring(node) == IF node.doc = None THEN None ELSE cleandoc(node.doc)

\* Python's "not v" of a text or None.
Not(v) == v = None \/ v = <<>>

\* "if not ast.get_docstring(node)"
MissingDocstring(node) == Not(get_docstring(node))

\* "arg.annotation is None for arg in node.args.args if arg.arg not in {...}"
Unannotated(params) ==
    \E k \in 1..Len(params) :
        params[k].arg \notin {"self", "cls"} /\ ~params[k].annotation

\* The check of the type hints with the "not" of "not node.returns" left out.
MissingTypeHintsOfAnnotated(node) == node.returns \/ Unannotated(node.args.args)

\* "if not node.returns or any(...)"
MissingTypeHints(node) == ~node.returns \/ Unannotated(node.args.args)

DocIssue(node, who, name) ==
    [line |-> node.lineno, kind |-> "Missing docstring", who |-> who, name |-> name]

HintIssue(node, who, name) ==
    [line |-> node.lineno, kind |-> "Missing type hints", who |-> who, name |-> name]

DeclIssues(node, who, name) ==
       When(MissingDocstring(node), DocIssue(node, who, name))
    \o When(MissingTypeHints(node), HintIssue(node, who, name))

\* "for method in node.body": the body's functions, as methods of the class.
RECURSIVE MethodIssues(_, _, _)
MethodIssues(t, c, body) ==
    IF body = <<>> THEN <<>>
    ELSE (IF t[Head(body)].type \in FunctionTypes
          THEN DeclIssues(t[Head(body)], "Method", t[c].name \o "." \o t[Head(body)].name)
          ELSE <<>>)
         \o MethodIssues(t, c, Tail(body))

\* One turn of "for node in ast.walk(tree)".
NodeIssues(t, i) ==
       (IF t[i].type \in FunctionTypes
        THEN DeclIssues(t[i], "Function", t[i].name) ELSE <<>>)
    \o (IF t[i].type = "ClassDef" THEN MethodIssues(t, i, Body(t, i)) ELSE <<>>)

RECURSIVE IssuesOf(_, _)
IssuesOf(t, nodes) ==
    IF nodes = <<>> THEN <<>>
    ELSE NodeIssues(t, Head(nodes)) \o IssuesOf(t, Tail(nodes))

check_docstrings_and_type_hints(t) == IssuesOf(t, WalkNodes(t))

\* ------------------------------------------------- input files: declarations

\* No docstring, an empty one, " ", "d".
Docs == {None, <<>>, <<32>>, <<100>>}

ClassNames == {"C"}

\* The declarations that may follow those of t.
DeclStmts(t) ==
    UNION { { DefNode(ty, p, LastLine(t) + 1, "f", d, r, NoArgs) :
                ty \in FunctionTypes, d \in Docs, r \in BOOLEAN }
            \cup { ClassNode(p, LastLine(t) + 1, c) : c \in ClassNames }
          : p \in OpenBodies(t) }

\* The parameter lists of a function, in the order of a signature.
ParamKinds == <<"posonlyargs", "args", "vararg", "kwonlyargs", "kwarg">>

AllParams(a) == a.posonlyargs \o a.args \o a.vararg \o a.kwonlyargs \o a.kwarg

\* The last list of the signature that holds a parameter; 0 if none does.
LastKind(a) ==
    IF a.kwarg # <<>> THEN 5
    ELSE IF a.kwonlyargs # <<>> THEN 4
    ELSE IF a.vararg # <<>> THEN 3
    ELSE IF a.args # <<>> THEN 2
    ELSE IF a.posonlyargs # <<>> THEN 1
    ELSE 0

\* *args and **kwargs hold one parameter each, and nothing follows **kwargs.
MayAdd(a, k) == IF k \in {3, 5} THEN k > LastKind(a) ELSE k >= LastKind(a)

OtherNames == <<"x", "y", "z", "w">>

\* The names the next parameter may have: an own name, or that of the receiver
\* if it is the first and positional.
ParamNames(a, k) ==
    {OtherNames[Len(AllParams(a)) + 1]}
    \cup (IF AllParams(a) = <<>> /\ k \in {1, 2} THEN {"self", "cls"} ELSE {})

AddParam(a, k, param) == [a EXCEPT ![ParamKinds[k]] = Append(@, param)]

RECURSIVE ParamCount(_)
ParamCount(t) ==
    IF t = <<>> THEN 0
    ELSE (IF Head(t).type \in FunctionTypes THEN Len(AllParams(Head(t).args)) ELSE 0)
         + ParamCount(Tail(t))

Names(t) == Len(t) + ParamCount(t)

\* ------------------------------------------- input files: the driver's

RECURSIVE FilesOfLen(_)
FilesOfLen(n) ==
    IF n = 0 THEN { <<>> }
    ELSE UNION { { Append(t, s) : s \in ImportStmts(t) } : t \in FilesOfLen(n - 1) }

\* What a file of python_files may hold when it parses.
DriverFiles == UNION { FilesOfLen(n) : n \in 0..MaxStmts }

\* ------------------------------------------------------------------ state

VARIABLES
    tree,                 \* ast.parse of the file under analysis; <<>> once the
                          \* driver's second analyzer has returned
    pc,                   \* where the program is
    import_issues,        \* issues of check_import_order not yet printed
    docstring_issues,     \* issues of check_docstrings_and_type_hints not yet printed
    python_files,         \* the paths find_python_files returned, 1..n
    file,                 \* the loop variable: an index of python_files, 0 before the loop
    all_issues_resolved,  \* the pass flag
    printed,              \* lines printed so far
    log,                  \* what logger.info wrote
    stderr,               \* the traceback of an uncaught exception
    imports_checked,      \* files check_import_order returned for
    docstrings_checked    \* files check_docstrings_and_type_hints returned for

analysis == <<tree, pc, import_issues, docstring_issues>>

driver == <<python_files, file, all_issues_resolved, printed, log, stderr,
            imports_checked, docstrings_checked>>

vars == <<analysis, driver>>

StatusLine == "All Python files passed checks with correct imports, docstrings, and type hints."

\* --------------------------------------------------------------- __main__

Init ==
    /\ python_files \in { 1..n : n \in 0..MaxFiles }
    /\ file = 0
    /\ all_issues_resolved = TRUE
    /\ printed = 0
    /\ log = <<>>
    /\ stderr = <<>>
    /\ imports_checked = {}
    /\ docstrings_checked = {}
    /\ tree = <<>>
    /\ pc = "start"
    /\ import_issues = <<>>
    /\ docstring_issues = <<>>

\* At "for file in python_files": before the first turn, or with the issues of
\* the turn before all printed.
AtLoopHead == pc = "start" \/ (pc = "docstring_issues" /\ docstring_issues = <<>>)

\* "import_issues = check_import_order(file)": the file is opened and parsed; a
\* SyntaxError of ast.parse is caught nowhere and ends the program.
MainCheckImportOrder ==
    /\ AtLoopHead
    /\ file + 1 \in python_files
    /\ file' = file + 1
    /\ \/ /\ pc' = "crashed"
          /\ stderr' = <<"SyntaxError">>
          /\ UNCHANGED <<tree, import_issues, imports_checked>>
       \/ /\ \E t \in DriverFiles :
               /\ tree' = t
               /\ import_issues' = check_import_order(t)
          /\ imports_checked' = imports_checked \cup {file + 1}
          /\ pc' = "import_issues"
          /\ UNCHANGED stderr
    /\ UNCHANGED <<docstring_issues, python_files, all_issues_resolved, printed, log,
                   docstrings_checked>>

\* One turn of "for issue in import_issues".
PrintImportIssue ==
    /\ pc = "import_issues"
    /\ import_issues # <<>>
    /\ printed' = printed + 1
    /\ all_issues_resolved' = FALSE
    /\ import_issues' = Tail(import_issues)
    /\ UNCHANGED <<tree, pc, docstring_issues, python_files, file, log, stderr,
                   imports_checked, docstrings_checked>>

\* "docstring_issues = check_docstrings_and_type_hints(file)": the same file,
\* opened and parsed again.
MainCheckDocstrings ==
    /\ pc = "import_issues"
    /\ import_issues = <<>>
    /\ docstring_issues' = check_docstrings_and_type_hints(tree)
    /\ docstrings_checked' = docstrings_checked \cup {file}
    /\ tree' = <<>>
    /\ pc' = "docstring_issues"
    /\ UNCHANGED <<import_issues, python_files, file, all_issues_resolved,
                   printed, log, stderr, imports_checked>>

\* The second print loop without "all_issues_resolved = False".
PrintDocstringIssueFlagKept ==
    /\ pc = "docstring_issues"
    /\ docstring_issues # <<>>
    /\ printed' = printed + 1
    /\ docstring_issues' = Tail(docstring_issues)
    /\ UNCHANGED <<tree, pc, import_issues, python_files, file, all_issues_resolved,
                   log, stderr, imports_checked, docstrings_checked>>

\* One turn of "for issue in docstring_issues".
PrintDocstringIssue ==
    /\ pc = "docstring_issues"
    /\ docstring_issues # <<>>
    /\ printed' = printed + 1
    /\ all_issues_resolved' = FALSE
    /\ docstring_issues' = Tail(docstring_issues)
    /\ UNCHANGED <<tree, pc, import_issues, python_files, file, log, stderr,
                   imports_checked, docstrings_checked>>

\* "if all_issues_resolved: logger.info(...)", after the loop.
FinalStatus ==
    /\ AtLoopHead
    /\ file + 1 \notin python_files
    /\ log' = IF all_issues_resolved THEN <<StatusLine>> ELSE <<>>
    /\ pc' = "done"
    /\ UNCHANGED <<tree, import_issues, docstring_issues, python_files, file,
                   all_issues_resolved, printed, stderr, imports_checked,
                   docstrings_checked>>

Next ==
    \/ MainCheckImportOrder
    \/ PrintImportIssue
    \/ MainCheckDocstrings
    \/ PrintDocstringIssue
    \/ FinalStatus

Spec == Init /\ [][Next]_vars

\* ------------------------------------------------- one analyzer on one file

\* The file under analysis is written one statement at a time, then read and
\* parsed by an analyzer.
InitSource ==
    /\ tree = <<>>
    /\ pc = "source"
    /\ import_issues = <<>>
    /\ docstring_issues = <<>>
    /\ python_files = {1}
    /\ file = 1
    /\ all_issues_resolved = TRUE
    /\ printed = 0
    /\ log = <<>>
    /\ stderr = <<>>
    /\ imports_checked = {}
    /\ docstrings_checked = {}

WriteImportStmt ==
    /\ pc = "source"
    /\ Len(tree) < MaxNodes
    /\ \E s \in ImportStmts(tree) : tree' = Append(tree, s)
    /\ UNCHANGED <<pc, import_issues, docstring_issues, driver>>

CheckImportOrder ==
    /\ pc = "source"
    /\ import_issues' = check_import_order(tree)
    /\ pc' = "imports_checked"
    /\ UNCHANGED <<tree, docstring_issues, driver>>

NextImports == WriteImportStmt \/ CheckImportOrder

SpecImports == InitSource /\ [][NextImports]_vars

WriteDecl ==
    /\ pc = "source"
    /\ Names(tree) < MaxNames
    /\ \E s \in DeclStmts(tree) : tree' = Append(tree, s)
    /\ UNCHANGED <<pc, import_issues, docstring_issues, driver>>

\* One more parameter in the signature of the function written last.
WriteParam ==
    /\ pc = "source"
    /\ Names(tree) < MaxNames
    /\ tree # <<>>
    /\ tree[Len(tree)].type \in FunctionTypes
    /\ \E k \in 1..5 :
         /\ MayAdd(tree[Len(tree)].args, k)
         /\ \E n \in ParamNames(tree[Len(tree)].args, k), ann \in BOOLEAN :
              tree' = [tree EXCEPT ![Len(tree)].args =
                         AddParam(@, k, [arg |-> n, annotation |-> ann])]
    /\ UNCHANGED <<pc, import_issues, docstring_issues, driver>>

CheckDocstringsAndTypeHints ==
    /\ pc = "source"
    /\ docstring_issues' = check_docstrings_and_type_hints(tree)
    /\ pc' = "docstrings_checked"
    /\ UNCHANGED <<tree, import_issues, driver>>

NextDecls == WriteDecl \/ WriteParam \/ CheckDocstringsAndTypeHints

SpecDecls == InitSource /\ [][NextDecls]_vars

\* ------------------------------------------------------ claims: the imports

\* The statements of the tree that satisfy Is, in source order.
InSource(t, Is(_)) == SelectSeq([i \in 1..Len(t) |-> i], LAMBDA i : Is(t[i]))

Texts(t, idx) == [k \in 1..Len(idx) |-> unparse(t[idx[k]])]

Lines(t, idx) == { t[idx[k]].lineno : k \in 1..Len(idx) }

NonDecreasing(texts) ==
    \A j, k \in 1..Len(texts) : j < k => ~StrLess(texts[k], texts[j])

Count(issues, msg) == Cardinality({ k \in 1..Len(issues) : issues[k].msg = msg })

\* The categories as the specification assigns them: a from-import with no
\* module name has no top-level component in the local-package set.
IsFrom(node) == node.type = "ImportFrom"
SpecLocalFrom(node) == IsLocalFrom(node)
SpecThirdPartyFrom(node) == IsFrom(node) /\ ~IsLocalFrom(node)

Categories(t) ==
    { c \in {"Direct", "ThirdPartyFrom", "LocalFrom"} :
        \E i \in 1..Len(t) :
            \/ c = "Direct" /\ IsDirect(t[i])
            \/ c = "ThirdPartyFrom" /\ SpecThirdPartyFrom(t[i])
            \/ c = "LocalFrom" /\ SpecLocalFrom(t[i]) }

CrossSectionIssues(issues) ==
    Count(issues, MsgThirdAfterDirect) + Count(issues, MsgLocalAfterThird)

ImportsChecked == pc = "imports_checked"

\* C4: a file whose imports all fall in one category (or that has none) gets no
\* cross-section diagnostic from check_import_order, whatever the order inside
\* the category; a file with no imports gets no diagnostic at all.
C4_OneCategoryNoCrossSection ==
    ImportsChecked =>
        /\ (Cardinality(Categories(tree)) <= 1 => CrossSectionIssues(import_issues) = 0)
        /\ (Categories(tree) = {} => import_issues = <<>>)

\* C4's case: two direct imports out of alphabetical order and nothing else; the
\* order diagnostic is there, a cross-section diagnostic is not.
C4_Witness ==
    /\ ImportsChecked
    /\ Categories(tree) = {"Direct"}
    /\ Len(InSource(tree, IsDirect)) >= 2
    /\ Count(import_issues, MsgDirectOrder) = 1
    /\ CrossSectionIssues(import_issues) = 0

\* C5: with the direct imports alphabetically sorted as they appear in the file
\* and every third-party from-import on a later line than every direct import,
\* check_import_order reports neither the order of the direct imports nor the
\* sequence of the two sections.
C5_SortedDirectThenThirdParty ==
    ImportsChecked =>
        (( /\ NonDecreasing(Texts(tree, InSource(tree, IsDirect)))
           /\ \A d \in Lines(tree, InSource(tree, IsDirect)),
                 f \in Lines(tree, InSource(tree, SpecThirdPartyFrom)) : d < f )
         => /\ Count(import_issues, MsgDirectOrder) = 0
            /\ Count(import_issues, MsgThirdAfterDirect) = 0)

\* C7: per category, check_import_order reports the alphabetical order once if
\* the category's imports, read in source order at any depth, are not in
\* non-decreasing order of their text, and not at all otherwise.
OrderReported(t, issues, Is(_), msg) ==
    Count(issues, msg) =
        IF NonDecreasing(Texts(t, InSource(t, Is))) THEN 0 ELSE 1

C7_OrderInSourceOrder ==
    ImportsChecked =>
        /\ OrderReported(tree, import_issues, IsDirect, MsgDirectOrder)
        /\ OrderReported(tree, import_issues, IsThirdPartyFrom, MsgThirdOrder)
        /\ OrderReported(tree, import_issues, IsLocalFrom, MsgLocalOrder)

\* C8: with both sections present, the sequence of two sections is reported
\* once if the last line of the earlier section is not strictly before the
\* first line of the later one, and not at all otherwise.
SequenceReported(t, issues, IsEarlier(_), IsLater(_), msg) ==
    LET e == Lines(t, InSource(t, IsEarlier))
        l == Lines(t, InSource(t, IsLater))
    IN (e # {} /\ l # {}) =>
          Count(issues, msg) = IF \A a \in e, b \in l : a < b THEN 0 ELSE 1

C8_CrossSectionStrict ==
    ImportsChecked =>
        /\ SequenceReported(tree, import_issues, IsDirect, IsThirdPartyFrom,
                            MsgThirdAfterDirect)
        /\ SequenceReported(tree, import_issues, IsThirdPartyFrom, IsLocalFrom,
                            MsgLocalAfterThird)

\* C9: every import statement of the tree is in exactly one of the three lists
\* of check_import_order: a direct import in direct_imports, a from-import
\* (with or without a module name) in local_from_imports if its top-level
\* component is a local package and in third_party_from_imports otherwise.
C9_EveryImportInOneList ==
    ImportsChecked =>
        /\ Len(direct_imports(tree)) = Len(InSource(tree, IsDirect))
        /\ Len(third_party_from_imports(tree)) = Len(InSource(tree, SpecThirdPartyFrom))
        /\ Len(local_from_imports(tree)) = Len(InSource(tree, SpecLocalFrom))

\* ------------------------------------------------ claims: the declarations

DocstringsChecked == pc = "docstrings_checked"

Functions(t) == { i \in 1..Len(t) : t[i].type \in FunctionTypes }

\* The methods of a class: the functions directly in its body.
Methods(t) ==
    { i \in Functions(t) : t[i].parent # 0 /\ t[t[i].parent].type = "ClassDef" }

\* A parameter of any kind, other than one named self or cls, has no annotation.
LacksAnnotation(node) ==
    \E k \in 1..Len(AllParams(node.args)) :
        /\ AllParams(node.args)[k].arg \notin {"self", "cls"}
        /\ ~AllParams(node.args)[k].annotation

EveryParamAnnotated(node) ==
    \A k \in 1..Len(AllParams(node.args)) : AllParams(node.args)[k].annotation

\* The diagnostics of one declaration: those at its line.
IssuesAt(issues, node, kind) ==
    { k \in 1..Len(issues) : issues[k].line = node.lineno /\ issues[k].kind = kind }

\* The docstring has text once its leading blanks are gone.
HasText(doc) == doc \notin {None, <<>>, <<32>>}

\* C1: a method of class C with a (non-empty) docstring that lacks a return
\* annotation or the annotation of a parameter other than self and cls gets
\* exactly one 'Missing type hints' diagnostic, labelled 'Method: C.m', and no
\* 'Missing docstring' diagnostic.
C1_MethodOneTypeHintIssue ==
    DocstringsChecked =>
        \A m \in Methods(tree) :
            (HasText(tree[m].doc) /\ (~tree[m].returns \/ LacksAnnotation(tree[m])))
            => /\ Cardinality(IssuesAt(docstring_issues, tree[m], "Missing type hints")) = 1
               /\ \A k \in IssuesAt(docstring_issues, tree[m], "Missing type hints") :
                     /\ docstring_issues[k].who = "Method"
                     /\ docstring_issues[k].name
                          = tree[tree[m].parent].name \o "." \o tree[m].name
               /\ IssuesAt(docstring_issues, tree[m], "Missing docstring") = {}

\* C6, as the specification has it: a function, nested function or method with
\* a leading docstring, a return annotation and an annotation on every
\* parameter gets no diagnostic.
C6_Original ==
    DocstringsChecked =>
        \A f \in Functions(tree) :
            (tree[f].doc # None /\ tree[f].returns /\ EveryParamAnnotated(tree[f]))
            => \A k \in 1..Len(docstring_issues) : docstring_issues[k].line # tree[f].lineno

\* C6, amended: a function, nested function or method gets no diagnostic if
\* its leading docstring is not empty or blank and it has a return annotation
\* and an annotation on every parameter.
C6_FullyAnnotatedNoIssue ==
    DocstringsChecked =>
        \A f \in Functions(tree) :
            (HasText(tree[f].doc) /\ tree[f].returns /\ EveryParamAnnotated(tree[f]))
            => \A k \in 1..Len(docstring_issues) : docstring_issues[k].line # tree[f].lineno

\* C6's case: a method with a docstring, a return annotation and an annotated
\* parameter, in a file the analyzer found nothing in.
C6_Witness ==
    /\ DocstringsChecked
    /\ docstring_issues = <<>>
    /\ \E m \in Methods(tree) :
         /\ HasText(tree[m].doc)
         /\ tree[m].returns
         /\ AllParams(tree[m].args) # <<>>
         /\ EveryParamAnnotated(tree[m])

\* C10: a function or method gets a 'Missing type hints' diagnostic if and only
\* if it lacks a return annotation or the annotation of a parameter of any kind
\* other than self and cls; and it gets at most one diagnostic of each kind.
C10_TypeHintsIffUnannotated ==
    DocstringsChecked =>
        \A f \in Functions(tree) :
            /\ (IssuesAt(docstring_issues, tree[f], "Missing type hints") # {})
                 <=> (~tree[f].returns \/ LacksAnnotation(tree[f]))
            /\ Cardinality(IssuesAt(docstring_issues, tree[f], "Missing type hints")) <= 1
            /\ Cardinality(IssuesAt(docstring_issues, tree[f], "Missing docstring")) <= 1

\* ------------------------------------------------------ claims: the driver

Ended == pc \in {"done", "crashed"}

\* C2: a file that fails to parse does not end the run: every other file of
\* python_files is analyzed by both analyzers.
C2_ParseFailureIsolated ==
    (Ended /\ stderr # <<>>) =>
        \A f \in python_files \ {file} :
            f \in imports_checked /\ f \in docstrings_checked

\* C3: the status line is written if and only if the run went through every
\* file, each parsed, and nothing was printed; it is written after both
\* analyzers have returned for every file; and with a diagnostic printed the
\* pass flag is false, in every state from then on.
C3_StatusIffClean ==
    /\ log # <<>> =>
         /\ log = <<StatusLine>>
         /\ pc = "done"
         /\ printed = 0
         /\ stderr = <<>>
         /\ imports_checked = python_files
         /\ docstrings_checked = python_files
    /\ (pc = "done" /\ printed = 0) => log = <<StatusLine>>
    /\ pc = "crashed" => (stderr # <<>> /\ log = <<>>)
    /\ printed > 0 => ~all_issues_resolved

\* C3's case: a run over files, all of them clean, that ended with the status
\* line.
C3_Witness ==
    /\ pc = "done"
    /\ python_files # {}
    /\ docstrings_checked = python_files
    /\ printed = 0
    /\ log = <<StatusLine>>

====
